---- MODULE Spec2Model ----
(***************************************************************************)
(* Model of the synchronization engine of woocommerce-sync:                *)
(*   SyncService.syncOrders / syncOrder / syncProductsFromOrder /          *)
(*   syncProduct, SyncService.cleanupOldOrders / cleanupUnusedProducts,    *)
(*   WooCommerceService.fetchOrders / fetchProduct, the two mongoose       *)
(*   collections Order and Product, SyncScheduler (start, stop, the two    *)
(*   cron callbacks, the two manual triggers), the constructors, what a    *)
(*   call of WooCommerceService gives its caller, and the shop's orders    *)
(*   as GET /orders lists them.                                            *)
(* Every await of the TypeScript code is one step of the model: the code   *)
(* between two awaits runs to completion on the Node event loop, and two   *)
(* passes interleave only at awaits.                                       *)
(***************************************************************************)
EXTENDS Integers, Sequences, FiniteSets, TLC

VARIABLES
    orders,     \* the Order collection: a set of documents
    products,   \* the Product collection: a set of documents
    nextId,     \* the next fresh document _id (ObjectId generation)
    remote,     \* the remote's order list for the sync query, in the remote's order
    sync,       \* sync[s]: the local state of sync pass s (syncOrders and its callees)
    ret,        \* the local state of the retention pass (cleanupOldOrders)
    obs,        \* observations of the passes (history, not program state)
    env,        \* the environment's budget: failures it may still inject, passes
                \* that may still be started
    sched,      \* the SyncScheduler: its two cron tasks, the position of its callbacks
    client      \* the WooCommerceService: the latest call made on it and its outcome

vars == <<orders, products, nextId, remote, sync, ret, obs, env, sched, client>>

----------------------------------------------------------------------------
\* Bounds of the model

\* the page size requested by syncOrders (perPage = 100 in the code, scaled down)
PerPage == 2
\* the longest remote order list
MaxRemote == 3
\* the failures the environment injects in one behaviour
MaxFaults == 2
\* the passes started in one behaviour
MaxPasses == 2
\* the same three bounds where passes interleave
ConcRemote == 2
ConcFaults == 1
ConcPasses == 2
\* the calls of start() and stop() before the cron tasks are followed
LeakCalls == 3
\* the same two bounds where the scheduler drives the passes
SchedFaults == 1
SchedPasses == 2
\* the calls of start() and stop() in one behaviour
MaxCalls == 2
\* the day number of "today"
Now == 400
\* the length of a calendar month, in days
DaysPerMonth == 30

\* Program constants
LookbackDays == 240
RetentionMonths == 3

\* syncOrders: thirtyDaysAgo.setDate(getDate() - 240)
AfterDate == Now - LookbackDays
\* cleanupOldOrders: threeMonthsAgo.setMonth(getMonth() - 3)
ThreeMonthsAgo == Now - RetentionMonths * DaysPerMonth

\* the sync passes that can be in flight (the cron callback and the manual trigger)
SyncProcs == {1, 2}
\* the slot of the pass runDailySync calls, the slot of the pass triggerManualSync calls
DailySlot == 1
ManualSlot == 2

----------------------------------------------------------------------------
\* The remote's payloads

\* WooCommerceOrder payloads the remote can return: id, line_items[].product_id,
\* date_created, date_modified.  Order 1 sits exactly on the retention threshold
\* (not stale), order 2 was modified one day earlier (stale, and still inside the
\* lookback window), order 3 was created on the first day of the lookback window
\* and never modified (stale).
WooOrders ==
    { [id |-> 1, line_items |-> <<1>>, date_created |-> ThreeMonthsAgo,
       date_modified |-> ThreeMonthsAgo],
      [id |-> 2, line_items |-> <<2, 1, 2>>, date_created |-> ThreeMonthsAgo - 10,
       date_modified |-> ThreeMonthsAgo - 1],
      [id |-> 3, line_items |-> <<1>>, date_created |-> AfterDate + 1,
       date_modified |-> AfterDate + 1] }

\* an order created before the lookback window and modified yesterday
OldOrder ==
    [id |-> 4, line_items |-> <<2>>, date_created |-> AfterDate - 10,
     date_modified |-> Now - 1]

\* the payload of an order after the shop modified it yesterday: only date_modified
\* moves (the remote lists by date_created, so its place in the list stays)
Touched(wooOrder) == [wooOrder EXCEPT !.date_modified = Now - 1]

ProductIds == {1, 2}

\* the WooCommerceProduct payload of fetchProduct(productId)
WooProduct(productId) == [id |-> productId, date_modified |-> Now - 2]

\* the payload of the same product on an earlier day, before the shop modified it
EarlierProduct(productId) == [id |-> productId, date_modified |-> Now - 20]

\* all sequences over S of length at most n
RECURSIVE SeqsUpTo(_, _)
SeqsUpTo(S, n) ==
    IF n = 0 THEN {<<>>}
    ELSE LET shorter == SeqsUpTo(S, n - 1)
         IN  shorter \cup {Append(q, x) : q \in {t \in shorter : Len(t) = n - 1}, x \in S}

Min(a, b) == IF a < b THEN a ELSE b

\* the remote's answer to GET /orders?page=&per_page=: the page-th slice of its list
PageOf(list, page, perPage) ==
    SubSeq(list, (page - 1) * perPage + 1, Min(page * perPage, Len(list)))

\* a mutant of Published: the remote filters on date_modified
ModifiedSince(list, after) ==
    SelectSeq(list, LAMBDA wooOrder : wooOrder.date_modified > after)

\* what the remote lists for GET /orders?after=: the request sends `after` (and
\* orderby date), which the remote applies to the date an order was created
Published(list, after) ==
    SelectSeq(list, LAMBDA wooOrder : wooOrder.date_created > after)

----------------------------------------------------------------------------
\* The environment

\* the outcomes of an awaited call: it resolves (TRUE) or rejects (FALSE); the
\* environment rejects only while its budget of failures lasts
Outcomes == IF env.faults > 0 THEN BOOLEAN ELSE {TRUE}

Charged(ok) == env' = IF ok THEN env ELSE [env EXCEPT !.faults = @ - 1]

\* a pass is started (a cron firing or a manual trigger), while the budget lasts
PassStarted == env.passes > 0 /\ env' = [env EXCEPT !.passes = @ - 1]

----------------------------------------------------------------------------
\* The store

\* the documents of a collection with the given wooCommerceId
Matching(docs, wooId) == {d \in docs : d.wooCommerceId = wooId}

\* findOne's pick among the matching documents: the oldest
FirstDoc(docs) == CHOOSE d \in docs : \A e \in docs : d._id <= e._id

\* insertOne: a new document with a fresh _id, whatever the collection holds
InsertDoc(docs, wooId, data, id) ==
    docs \cup {data @@ [_id |-> id, wooCommerceId |-> wooId]}

\* Model.findOneAndUpdate({wooCommerceId}, data, {upsert: true}):
\* update the matching document in place, or insert a new one with a fresh _id
UpsertDoc(docs, wooId, data, id) ==
    IF Matching(docs, wooId) # {}
    THEN LET old == FirstDoc(Matching(docs, wooId))
         IN  (docs \ {old}) \cup {data @@ [_id |-> old._id, wooCommerceId |-> wooId]}
    ELSE docs \cup {data @@ [_id |-> id, wooCommerceId |-> wooId]}

\* the next fresh _id after a write that turned docs into docs2
FreshId(docs, docs2, id) ==
    IF \E d \in docs2 \ docs : d._id = id THEN id + 1 ELSE id

\* a mutant of OrderData: last_modified is the time of the write
OrderDataWriteTime(wooOrder) ==
    [line_items |-> wooOrder.line_items, date_created |-> wooOrder.date_created,
     last_modified |-> Now]

\* syncOrder: orderData built from the payload
OrderData(wooOrder) ==
    [line_items |-> wooOrder.line_items, date_created |-> wooOrder.date_created,
     last_modified |-> wooOrder.date_modified]

\* syncProduct: productData built from the payload
ProductData(wooProduct) == [date_modified |-> wooProduct.date_modified]

\* a mutant of UpsertOrder: an insert where the code upserts
InsertOrder(docs, wooOrder, id) == InsertDoc(docs, wooOrder.id, OrderData(wooOrder), id)

\* syncOrder: Order.findOneAndUpdate({wooCommerceId: wooOrder.id}, orderData,
\* {upsert: true, new: true})
UpsertOrder(docs, wooOrder, id) == UpsertDoc(docs, wooOrder.id, OrderData(wooOrder), id)

\* a mutant of UpsertRejected: the rejected write leaves an empty record behind
UpsertHalfDone(docs, wooProduct, id) ==
    InsertDoc(docs, wooProduct.id, [date_modified |-> 0], id)

\* syncProduct: Product.findOneAndUpdate(...) rejects, nothing is written
UpsertRejected(docs, wooProduct, id) == docs

\* a mutant of UpsertProduct: an insert where the code upserts
InsertProduct(docs, wooProduct, id) ==
    InsertDoc(docs, wooProduct.id, ProductData(wooProduct), id)

\* syncProduct: Product.findOneAndUpdate({wooCommerceId: wooProduct.id}, productData,
\* {upsert: true, new: true})
UpsertProduct(docs, wooProduct, id) ==
    UpsertDoc(docs, wooProduct.id, ProductData(wooProduct), id)

\* Order.findOne({'line_items.product_id': productId}) finds a document
Referenced(docs, productId) ==
    \E d \in docs : \E k \in 1..Len(d.line_items) : d.line_items[k] = productId

\* a mutant of Distinct: the list as it is, repetitions included
KeepDuplicates(seq) == seq

\* [...new Set(seq)]: the distinct elements, in order of first occurrence
RECURSIVE Distinct(_)
Distinct(seq) ==
    IF seq = <<>> THEN <<>>
    ELSE LET front == Distinct(SubSeq(seq, 1, Len(seq) - 1))
             last  == seq[Len(seq)]
         IN  IF \E k \in 1..Len(front) : front[k] = last THEN front ELSE Append(front, last)

Range(seq) == {seq[k] : k \in 1..Len(seq)}

----------------------------------------------------------------------------
\* The sync pass: SyncService.syncOrders

IdleSync ==
    [pc |-> "idle", page |-> 0, orders |-> <<>>, i |-> 0, productIds |-> <<>>,
     synced |-> 0, errors |-> 0, afterDate |-> 0]

\* what is observed of one sync pass: the page requests made (page number, length
\* of the answer, -1 for a rejected request), the order upserts that resolved and
\* rejected, the backfills that resolved and failed, the ids concerned
IdleObs ==
    [fetchLog |-> <<>>, nOk |-> 0, nFail |-> 0, nBackfilled |-> 0, nBackfillFail |-> 0,
     upserted |-> {}, failedBackfill |-> {}]

\* what is observed of one retention pass: the documents it removed, the orders
\* whose deletion was rejected, the product ids whose existence check was made,
\* the product ids whose check or deletion was rejected
IdleRetObs ==
    [removedOrders |-> {}, removedProducts |-> {}, failedOrders |-> {},
     checkedProducts |-> {}, failedProducts |-> {}]

\* the observations: obs.pass[s] of sync pass s, obs.ret of the retention pass,
\* obs.checked: the pairs <<order id, product id>> for which the presence check
\* that followed the order's latest upsert found the product present
\* obs.prev[s]: the store and the result left by the pass that ran in slot s before
\* the current one, when that pass returned without a failure; otherwise the
\* product ids whose backfill that pass saw fail (NoPass where no pass ran)
NoPass == [clean |-> FALSE, failedBackfill |-> {}]

InitObs ==
    [pass |-> [s \in SyncProcs |-> IdleObs], ret |-> IdleRetObs, checked |-> {},
     prev |-> [s \in SyncProcs |-> NoPass]]

\* a mutant of LoopControl: the short-page break is missing, only an empty page
\* ends the pass
LoopControlNoBreak(r) ==
    IF r.i < Len(r.orders)
    THEN [r EXCEPT !.i = @ + 1, !.pc = "upsert", !.productIds = <<>>]
    ELSE [r EXCEPT !.pc = "fetch", !.page = @ + 1, !.orders = <<>>, !.i = 0,
                   !.productIds = <<>>]

\* a mutant of LoopControl: page++ is missing
LoopControlSamePage(r) ==
    IF r.i < Len(r.orders)
    THEN [r EXCEPT !.i = @ + 1, !.pc = "upsert", !.productIds = <<>>]
    ELSE IF Len(r.orders) < PerPage
         THEN [r EXCEPT !.pc = "done", !.orders = <<>>, !.i = 0, !.productIds = <<>>]
         ELSE [r EXCEPT !.pc = "fetch", !.orders = <<>>, !.i = 0, !.productIds = <<>>]

\* a mutant of LoopControl: the break compares with <= perPage
LoopControlBreakOnFull(r) ==
    IF r.i < Len(r.orders)
    THEN [r EXCEPT !.i = @ + 1, !.pc = "upsert", !.productIds = <<>>]
    ELSE IF Len(r.orders) <= PerPage
         THEN [r EXCEPT !.pc = "done", !.orders = <<>>, !.i = 0, !.productIds = <<>>]
         ELSE [r EXCEPT !.pc = "fetch", !.page = @ + 1, !.orders = <<>>, !.i = 0,
                        !.productIds = <<>>]

\* the end of the while(true) body: the next record of the page, the next page, or
\* the end of the pass after a short page
LoopControl(r) ==
    IF r.i < Len(r.orders)
    THEN [r EXCEPT !.i = @ + 1, !.pc = "upsert", !.productIds = <<>>]
    ELSE IF Len(r.orders) < PerPage
         THEN [r EXCEPT !.pc = "done", !.orders = <<>>, !.i = 0, !.productIds = <<>>]
         ELSE [r EXCEPT !.pc = "fetch", !.page = @ + 1, !.orders = <<>>, !.i = 0,
                        !.productIds = <<>>]

\* syncOrder returned: synced++
OrderSynced(r) == LoopControl([r EXCEPT !.synced = @ + 1])

\* a mutant of OrderFailed: the catch block ends the pass
OrderFailedAborts(r) ==
    [r EXCEPT !.errors = @ + 1, !.pc = "done", !.orders = <<>>, !.i = 0,
              !.productIds = <<>>]

\* a mutant of OrderFailed: the failure of a record is raised to the caller
OrderFailedRaises(r) == [r EXCEPT !.errors = @ + 1, !.pc = "faulted"]

\* a mutant of OrderFailed: the products of the record are backfilled all the same
OrderFailedBackfills(r) ==
    [r EXCEPT !.errors = @ + 1, !.pc = "findProduct",
              !.productIds = <<Head(r.orders[r.i].line_items)>>]

\* syncOrder threw: errors++
OrderFailed(r) == LoopControl([r EXCEPT !.errors = @ + 1])

\* a mutant of NextProduct: only the first product id of the order is looked at
NextProductStops(r) == OrderSynced(r)

\* the for loop of syncProductsFromOrder moves to the next product id, or returns
NextProduct(r) ==
    IF Len(r.productIds) > 1
    THEN [r EXCEPT !.productIds = Tail(@), !.pc = "findProduct"]
    ELSE OrderSynced(r)

\* a mutant of StartedPass: the counters of the previous call are kept
StartedPassKeepsCounts(r) ==
    [r EXCEPT !.pc = "fetch", !.page = 1, !.afterDate = AfterDate]

\* the locals of a call of syncOrders: afterDate, synced = 0, errors = 0, page = 1,
\* and the first page requested
StartedPass(r) == [IdleSync EXCEPT !.pc = "fetch", !.page = 1, !.afterDate = AfterDate]

\* what the pass that ends in slot s leaves behind, as the next call finds it
Snapshot(s) ==
    IF sync[s].pc = "done" /\ obs.pass[s].nFail = 0 /\ obs.pass[s].nBackfillFail = 0
    THEN [clean |-> TRUE, orders |-> orders, products |-> products,
          synced |-> sync[s].synced]
    ELSE [clean |-> FALSE, failedBackfill |-> obs.pass[s].failedBackfill]

\* syncOrders runs up to its first await
BeginSync(s) ==
    /\ sync' = [sync EXCEPT ![s] = StartedPass(@)]
    /\ obs' = [obs EXCEPT !.pass[s] = IdleObs, !.prev[s] = Snapshot(s)]

\* syncOrders is called
SyncStart(s) ==
    /\ sync[s].pc \in {"idle", "done", "faulted"}
    /\ PassStarted
    /\ BeginSync(s)
    /\ UNCHANGED <<orders, products, nextId, remote, ret, sched, client>>

\* a mutant of FetchFault: the rejected page is requested again
FetchFaultRetries(r) == [r EXCEPT !.pc = "fetch"]

\* fetchOrders threw: the outer catch of syncOrders logs and rethrows
FetchFault(r) == [r EXCEPT !.pc = "faulted"]

\* await fetchOrders(page, perPage, afterDate) settles
FetchOrders(s) ==
    /\ sync[s].pc = "fetch"
    /\ \E ok \in Outcomes : Charged(ok) /\
        IF ok
        THEN LET page == PageOf(Published(remote, sync[s].afterDate),
                                sync[s].page, PerPage)
             IN  /\ sync' = [sync EXCEPT ![s] =
                        IF Len(page) = 0
                        THEN [@ EXCEPT !.pc = "done"]
                        ELSE [@ EXCEPT !.pc = "upsert", !.orders = page, !.i = 1]]
                 /\ obs' = [obs EXCEPT !.pass[s].fetchLog =
                        Append(@, [page |-> sync[s].page, len |-> Len(page),
                                   after |-> sync[s].afterDate])]
        ELSE /\ sync' = [sync EXCEPT ![s] = FetchFault(@)]
             /\ obs' = [obs EXCEPT !.pass[s].fetchLog =
                        Append(@, [page |-> sync[s].page, len |-> -1,
                                   after |-> sync[s].afterDate])]
    /\ UNCHANGED <<orders, products, nextId, remote, ret, sched, client>>

\* syncOrder: await Order.findOneAndUpdate(..., {upsert: true}) settles
SyncOrderUpsert(s) ==
    /\ sync[s].pc = "upsert"
    /\ LET wooOrder == sync[s].orders[sync[s].i]
           productIds == Distinct(wooOrder.line_items)
       IN  \E ok \in Outcomes : Charged(ok) /\
            IF ok
            THEN /\ orders' = UpsertOrder(orders, wooOrder, nextId)
                 /\ nextId' = FreshId(orders, orders', nextId)
                 /\ sync' = [sync EXCEPT ![s] =
                        IF productIds = <<>>
                        THEN OrderSynced(@)
                        ELSE [@ EXCEPT !.pc = "findProduct", !.productIds = productIds]]
                 /\ obs' = [obs EXCEPT !.pass[s].nOk = @ + 1,
                                       !.pass[s].upserted = @ \cup {wooOrder.id},
                                       !.checked = {c \in @ : c[1] # wooOrder.id}]
            ELSE /\ sync' = [sync EXCEPT ![s] = OrderFailed(@)]
                 /\ obs' = [obs EXCEPT !.pass[s].nFail = @ + 1]
                 /\ UNCHANGED <<orders, nextId>>
    /\ UNCHANGED <<products, remote, ret, sched, client>>

\* a mutant of Present: the product is never found
PresentNever(docs, wooId) == FALSE

\* Product.findOne({wooCommerceId: productId}) resolved to a document
Present(docs, wooId) == Matching(docs, wooId) # {}

\* a backfill step failed: caught and logged inside syncProductsFromOrder
BackfillFailed(s, productId) ==
    /\ sync' = [sync EXCEPT ![s] = NextProduct(@)]
    /\ obs' = [obs EXCEPT !.pass[s].nBackfillFail = @ + 1,
                          !.pass[s].failedBackfill = @ \cup {productId}]

\* syncProductsFromOrder: await Product.findOne({wooCommerceId: productId}) settles
FindProduct(s) ==
    /\ sync[s].pc = "findProduct"
    /\ LET productId == Head(sync[s].productIds)
           wooOrder  == sync[s].orders[sync[s].i]
           existingProduct == Present(products, productId)
       IN  \E ok \in Outcomes : Charged(ok) /\
            IF ok
            THEN /\ sync' = [sync EXCEPT ![s] =
                        IF existingProduct
                        THEN NextProduct(@)
                        ELSE [@ EXCEPT !.pc = "fetchProduct"]]
                 /\ obs' = IF existingProduct
                           THEN [obs EXCEPT !.checked = @ \cup {<<wooOrder.id, productId>>}]
                           ELSE obs
            ELSE BackfillFailed(s, productId)
    /\ UNCHANGED <<orders, products, nextId, remote, ret, sched, client>>

\* syncProductsFromOrder: await fetchProduct(productId) settles
FetchProduct(s) ==
    /\ sync[s].pc = "fetchProduct"
    /\ LET productId == Head(sync[s].productIds)
       IN  \E ok \in Outcomes : Charged(ok) /\
            IF ok
            THEN /\ sync' = [sync EXCEPT ![s].pc = "syncProduct"]
                 /\ obs' = obs
            ELSE BackfillFailed(s, productId)
    /\ UNCHANGED <<orders, products, nextId, remote, ret, sched, client>>

\* syncProduct: await Product.findOneAndUpdate(..., {upsert: true}) settles
SyncProduct(s) ==
    /\ sync[s].pc = "syncProduct"
    /\ LET productId  == Head(sync[s].productIds)
           wooProduct == WooProduct(productId)
       IN  \E ok \in Outcomes : Charged(ok) /\
            IF ok
            THEN /\ products' = UpsertProduct(products, wooProduct, nextId)
                 /\ nextId' = FreshId(products, products', nextId)
                 /\ sync' = [sync EXCEPT ![s] = NextProduct(@)]
                 /\ obs' = [obs EXCEPT !.pass[s].nBackfilled = @ + 1]
            ELSE /\ BackfillFailed(s, productId)
                 /\ products' = UpsertRejected(products, wooProduct, nextId)
                 /\ nextId' = FreshId(products, products', nextId)
    /\ UNCHANGED <<orders, remote, ret, sched, client>>

SyncStep(s) ==
    \/ FetchOrders(s)
    \/ SyncOrderUpsert(s)
    \/ FindProduct(s)
    \/ FetchProduct(s)
    \/ SyncProduct(s)

----------------------------------------------------------------------------
\* The retention pass: SyncService.cleanupOldOrders

IdleRet ==
    [pc |-> "idle", ordersToDelete |-> <<>>, productIdsToCheck |-> <<>>,
     deletedOrders |-> 0, deletedProducts |-> 0]

\* the documents of a set as a sequence, in _id (insertion) order
RECURSIVE DocSeq(_)
DocSeq(docs) ==
    IF docs = {} THEN <<>>
    ELSE LET d == FirstDoc(docs) IN <<d>> \o DocSeq(docs \ {d})

\* Order.find({last_modified: {$lt: threeMonthsAgo}})
StaleOrders(docs) == {d \in docs : d.last_modified < ThreeMonthsAgo}

\* a mutant of AddAll: every product id of the catalog becomes a candidate
AddAllKnown(set, items) == Distinct(set \o items \o <<1, 2>>)

\* productIdsToCheck.add(item.product_id) for each line item: a Set keeps the
\* first insertion
AddAll(set, items) == Distinct(set \o items)

\* a mutant of Unused: every candidate counts as unused
UnusedUnchecked(docs, productId) == TRUE

\* cleanupUnusedProducts: !orderWithProduct
Unused(docs, productId) == ~Referenced(docs, productId)

\* Model.findByIdAndDelete(_id)
DeleteById(docs, id) == {d \in docs : d._id # id}

\* Model.findOneAndDelete({wooCommerceId}): removes the first matching document
DeleteOne(docs, wooId) ==
    IF Matching(docs, wooId) = {} THEN docs ELSE docs \ {FirstDoc(Matching(docs, wooId))}

\* the for loop of cleanupUnusedProducts moves to the next product id, or returns
NextCandidate(r) ==
    IF Len(r.productIdsToCheck) > 1
    THEN [r EXCEPT !.productIdsToCheck = Tail(@), !.pc = "checkProduct"]
    ELSE [r EXCEPT !.productIdsToCheck = <<>>, !.pc = "done"]

\* a mutant of NextOrder: the products of an order are checked before the next
\* order is deleted
NextOrderChecksFirst(r) ==
    IF r.productIdsToCheck # <<>>
    THEN [r EXCEPT !.ordersToDelete = Tail(@), !.pc = "checkProduct"]
    ELSE IF Len(r.ordersToDelete) > 1
         THEN [r EXCEPT !.ordersToDelete = Tail(@)]
         ELSE [r EXCEPT !.ordersToDelete = <<>>, !.pc = "done"]

\* the for loop over ordersToDelete moves to the next order, or phase 2 starts
NextOrder(r) ==
    IF Len(r.ordersToDelete) > 1
    THEN [r EXCEPT !.ordersToDelete = Tail(@)]
    ELSE IF r.productIdsToCheck = <<>>
         THEN [r EXCEPT !.ordersToDelete = <<>>, !.pc = "done"]
         ELSE [r EXCEPT !.ordersToDelete = <<>>, !.pc = "checkProduct"]

\* a mutant of DeleteFailed: the loop is left at the first rejected deletion
DeleteFailedBreaks(r) ==
    IF r.productIdsToCheck = <<>>
    THEN [r EXCEPT !.ordersToDelete = <<>>, !.pc = "done"]
    ELSE [r EXCEPT !.ordersToDelete = <<>>, !.pc = "checkProduct"]

\* the catch inside the for loop over ordersToDelete: logged, the loop goes on
DeleteFailed(r) == NextOrder(r)

\* a mutant of CandidateFailed: the loop is left at the first rejected call
CandidateFailedReturns(r) == [r EXCEPT !.productIdsToCheck = <<>>, !.pc = "done"]

\* the catch inside the for loop of cleanupUnusedProducts: logged, the loop goes on
CandidateFailed(r) == NextCandidate(r)

\* cleanupOldOrders runs up to its first await
BeginRet ==
    /\ ret' = [IdleRet EXCEPT !.pc = "find"]
    /\ obs' = [obs EXCEPT !.ret = IdleRetObs]

\* cleanupOldOrders is called
RetStart ==
    /\ ret.pc \in {"idle", "done", "faulted"}
    /\ PassStarted
    /\ BeginRet
    /\ UNCHANGED <<orders, products, nextId, remote, sync, sched, client>>

\* await Order.find({last_modified: {$lt: threeMonthsAgo}}) settles
RetFind ==
    /\ ret.pc = "find"
    /\ \E ok \in Outcomes : Charged(ok) /\
        IF ok
        THEN LET found == DocSeq(StaleOrders(orders))
             IN  ret' = IF found = <<>>
                        THEN [ret EXCEPT !.pc = "done"]
                        ELSE [ret EXCEPT !.pc = "deleteOrder", !.ordersToDelete = found]
        ELSE ret' = [ret EXCEPT !.pc = "faulted"]
    /\ UNCHANGED <<orders, products, nextId, remote, sync, obs, sched, client>>

\* the line items are collected, then await Order.findByIdAndDelete(order._id) settles
RetDeleteOrder ==
    /\ ret.pc = "deleteOrder"
    /\ LET order == Head(ret.ordersToDelete)
           collected == [ret EXCEPT
                           !.productIdsToCheck = AddAll(@, order.line_items)]
       IN  \E ok \in Outcomes : Charged(ok) /\
            IF ok
            THEN /\ orders' = DeleteById(orders, order._id)
                 /\ ret' = NextOrder([collected EXCEPT !.deletedOrders = @ + 1])
                 /\ obs' = [obs EXCEPT !.ret.removedOrders = @ \cup (orders \ orders')]
            ELSE /\ orders' = orders
                 /\ ret' = DeleteFailed(collected)
                 /\ obs' = [obs EXCEPT !.ret.failedOrders = @ \cup {order}]
    /\ UNCHANGED <<products, nextId, remote, sync, sched, client>>

\* cleanupUnusedProducts: await Order.findOne({'line_items.product_id'}) settles
RetCheckProduct ==
    /\ ret.pc = "checkProduct"
    /\ LET productId == Head(ret.productIdsToCheck)
       IN  \E ok \in Outcomes : Charged(ok) /\
            IF ok
            THEN /\ ret' = IF Unused(orders, productId)
                           THEN [ret EXCEPT !.pc = "deleteProduct"]
                           ELSE NextCandidate(ret)
                 /\ obs' = [obs EXCEPT !.ret.checkedProducts = @ \cup {productId}]
            ELSE /\ ret' = CandidateFailed(ret)
                 /\ obs' = [obs EXCEPT !.ret.checkedProducts = @ \cup {productId},
                                       !.ret.failedProducts = @ \cup {productId}]
    /\ UNCHANGED <<orders, products, nextId, remote, sync, sched, client>>

\* cleanupUnusedProducts: await Product.findOneAndDelete({wooCommerceId}) settles
RetDeleteProduct ==
    /\ ret.pc = "deleteProduct"
    /\ LET productId == Head(ret.productIdsToCheck)
       IN  \E ok \in Outcomes : Charged(ok) /\
            IF ok
            THEN /\ products' = DeleteOne(products, productId)
                 /\ ret' = NextCandidate([ret EXCEPT !.deletedProducts = @ + 1])
                 /\ obs' = [obs EXCEPT !.ret.removedProducts =
                                          @ \cup (products \ products')]
            ELSE /\ products' = products
                 /\ ret' = CandidateFailed(ret)
                 /\ obs' = [obs EXCEPT !.ret.failedProducts = @ \cup {productId}]
    /\ UNCHANGED <<orders, nextId, remote, sync, sched, client>>

RetStep ==
    \/ RetFind
    \/ RetDeleteOrder
    \/ RetCheckProduct
    \/ RetDeleteProduct

----------------------------------------------------------------------------
\* The scheduler: SyncScheduler

\* a pass is in flight: called and not yet returned or thrown
InFlight(pc) == pc \notin {"idle", "done", "faulted"}

\* syncJob, cleanupJob: the ScheduledTask the field holds ("none": undefined).
\* orphans: the pairs of tasks an earlier start() scheduled and a later start()
\* overwrote while they were scheduled; no field refers to them any more.
\* daily, weekly, manualSync, manualCleanup: the position of runDailySync, runCleanup,
\* triggerManualSync, triggerManualCleanup.
\* calls: the start() and stop() calls made, each with the position the call found
\* runDailySync in.  runs: the runs that ended, in the order they ended (both are
\* history).
IdleSched ==
    [syncJob |-> "none", cleanupJob |-> "none", orphans |-> 0,
     daily |-> "idle", weekly |-> "idle", manualSync |-> "idle", manualCleanup |-> "idle",
     calls |-> <<>>, runs |-> <<>>]

\* The model has one slot for the passes of runDailySync, one for those of
\* triggerManualSync and one for the retention passes: a run starts when the run
\* that used its slot before has ended.

\* the entry of a start() or stop() call in sched.calls
Call(sc, op) == [op |-> op, daily |-> sc.daily]

\* a mutant of StopJob: the task is stopped without the test that the field is set
StopJobUnguarded(job) == "stopped"

\* stop(): if (this.syncJob) this.syncJob.stop()
StopJob(job) == IF job # "none" THEN "stopped" ELSE job

\* a mutant of TimerActive: a stopped task still fires
TimerActiveWhenStopped(job, orphans) == job # "none" \/ orphans > 0

\* a cron timer of the job can fire: the task the field holds is scheduled, or a
\* task that was overwritten is
TimerActive(job, orphans) == job = "scheduled" \/ orphans > 0

\* a mutant of MayFire: a task's callback waits while the other job runs
MayFireAlone(own, other) == own = "idle" /\ other = "idle"

\* the callback of a cron task is invoked whatever the callback of the other task
\* is doing (the model follows one run of a job at a time)
MayFire(own, other) == own = "idle"

\* a mutant of Proceeds: the result of the connection test is ignored
ProceedsAnyway(isConnected) == TRUE

\* runDailySync: if (!isConnected) return
Proceeds(isConnected) == isConnected

\* a mutant of Caught: the fault leaves the callback, and the process with it
Uncaught(sc, job) ==
    [sc EXCEPT !.runs = Append(@, [job |-> job, outcome |-> "failed", result |-> <<>>]),
               !.syncJob = "none", !.cleanupJob = "none", !.orphans = 0]

\* the catch block of runDailySync and of runCleanup: the fault is logged
Caught(sc, job) == [sc EXCEPT !.runs = Append(@, [job |-> job, outcome |-> "failed",
                                                   result |-> <<>>])]

\* a mutant of Returned: the trigger resolves with empty counts whatever the pass did
ReturnedNothing(r, a, b) ==
    IF r.pc = "done" THEN [outcome |-> "resolved", result |-> <<0, 0>>]
    ELSE [outcome |-> "resolved", result |-> <<0, 0>>]

\* return await pass(): the promise of the caller settles as the pass's did, with
\* the two counts a and b of its result
Returned(r, a, b) ==
    IF r.pc = "done" THEN [outcome |-> "resolved", result |-> <<a, b>>]
    ELSE [outcome |-> "rejected", result |-> <<>>]

\* a mutant of Started: start() also runs the sync job once, at once
StartedRunsNow(sc) ==
    [sc EXCEPT !.orphans = IF sc.syncJob = "scheduled" THEN @ + 1 ELSE @,
               !.syncJob = "scheduled",
               !.cleanupJob = "scheduled",
               !.daily = "test",
               !.calls = Append(@, Call(sc, "start"))]

\* start(): both tasks are scheduled and assigned to the fields; a task the field
\* held is not stopped
Started(sc) ==
    [sc EXCEPT !.orphans = IF sc.syncJob = "scheduled" THEN @ + 1 ELSE @,
               !.syncJob = "scheduled",
               !.cleanupJob = "scheduled",
               !.calls = Append(@, Call(sc, "start"))]

\* stop(): the tasks the fields hold are stopped
Stopped(sc) ==
    [sc EXCEPT !.syncJob = StopJob(@),
               !.cleanupJob = StopJob(@),
               !.calls = Append(@, Call(sc, "stop"))]

\* getStatus(): isRunning is !!(this.syncJob && this.cleanupJob); a stopped task
\* is still an object
GetStatus(sc) == [isRunning |-> sc.syncJob # "none" /\ sc.cleanupJob # "none"]

\* the methods below are called on a scheduler whose construction succeeded
Built == client.state = "ready"

\* start() is called
Start ==
    /\ Built
    /\ Len(sched.calls) < MaxCalls
    /\ sched' = Started(sched)
    /\ UNCHANGED <<orders, products, nextId, remote, sync, ret, obs, env, client>>

\* stop() is called
Stop ==
    /\ Built
    /\ Len(sched.calls) < MaxCalls
    /\ sched' = Stopped(sched)
    /\ UNCHANGED <<orders, products, nextId, remote, sync, ret, obs, env, client>>

\* the sync task fires: runDailySync runs up to await testConnection()
DailyFire ==
    /\ TimerActive(sched.syncJob, sched.orphans)
    /\ MayFire(sched.daily, sched.weekly)
    /\ PassStarted
    /\ sched' = [sched EXCEPT !.daily = "test"]
    /\ UNCHANGED <<orders, products, nextId, remote, sync, ret, obs, client>>

\* await testConnection() settles: SyncService.testConnection returns false where
\* the request was rejected or threw; the run is skipped, or syncOrders is called
DailyTest ==
    /\ sched.daily = "test"
    /\ \E isConnected \in Outcomes : Charged(isConnected) /\
        IF Proceeds(isConnected)
        THEN /\ BeginSync(DailySlot)
             /\ sched' = [sched EXCEPT !.daily = "sync"]
        ELSE /\ sched' = [sched EXCEPT !.daily = "idle",
                    !.runs = Append(@, [job |-> "sync", outcome |-> "skipped",
                                        result |-> <<>>])]
             /\ UNCHANGED <<sync, obs>>
    /\ UNCHANGED <<orders, products, nextId, remote, ret, client>>

\* await syncOrders() settled: the result is logged and getSyncStats called, or the
\* fault is caught
DailyResumed ==
    /\ sched.daily = "sync"
    /\ ~InFlight(sync[DailySlot].pc)
    /\ sched' = IF sync[DailySlot].pc = "done"
                THEN [sched EXCEPT !.daily = "stats"]
                ELSE [Caught(sched, "sync") EXCEPT !.daily = "idle"]
    /\ UNCHANGED <<orders, products, nextId, remote, sync, ret, obs, env, client>>

\* await getSyncStats() settles: the three queries of Promise.all
DailyStats ==
    /\ sched.daily = "stats"
    /\ \E ok \in Outcomes : Charged(ok) /\
        sched' = IF ok
                 THEN [sched EXCEPT !.daily = "idle",
                        !.runs = Append(@, [job |-> "sync", outcome |-> "completed",
                                   result |-> <<sync[DailySlot].synced,
                                                sync[DailySlot].errors>>])]
                 ELSE [Caught(sched, "sync") EXCEPT !.daily = "idle"]
    /\ UNCHANGED <<orders, products, nextId, remote, sync, ret, obs, client>>

\* the cleanup task fires: runCleanup calls cleanupOldOrders
WeeklyFire ==
    /\ TimerActive(sched.cleanupJob, sched.orphans)
    /\ MayFire(sched.weekly, sched.daily)
    /\ sched.manualCleanup = "idle"
    /\ PassStarted
    /\ BeginRet
    /\ sched' = [sched EXCEPT !.weekly = "run"]
    /\ UNCHANGED <<orders, products, nextId, remote, sync, client>>

\* await cleanupOldOrders() settled: the result is logged, or the fault is caught
WeeklyResumed ==
    /\ sched.weekly = "run"
    /\ ~InFlight(ret.pc)
    /\ sched' = IF ret.pc = "done"
                THEN [sched EXCEPT !.weekly = "idle",
                        !.runs = Append(@, [job |-> "cleanup", outcome |-> "completed",
                                   result |-> <<ret.deletedOrders, ret.deletedProducts>>])]
                ELSE [Caught(sched, "cleanup") EXCEPT !.weekly = "idle"]
    /\ UNCHANGED <<orders, products, nextId, remote, sync, ret, obs, env, client>>

\* triggerManualSync(): syncOrders is called
TriggerManualSync ==
    /\ Built
    /\ sched.manualSync = "idle"
    /\ PassStarted
    /\ BeginSync(ManualSlot)
    /\ sched' = [sched EXCEPT !.manualSync = "run"]
    /\ UNCHANGED <<orders, products, nextId, remote, ret, client>>

\* return await syncOrders(): the caller of triggerManualSync gets what the pass gave
ManualSyncResumed ==
    /\ sched.manualSync = "run"
    /\ ~InFlight(sync[ManualSlot].pc)
    /\ sched' = [sched EXCEPT !.manualSync = "idle",
            !.runs = Append(@, [job |-> "manualSync"] @@
                Returned(sync[ManualSlot], sync[ManualSlot].synced,
                         sync[ManualSlot].errors))]
    /\ UNCHANGED <<orders, products, nextId, remote, sync, ret, obs, env, client>>

\* triggerManualCleanup(): cleanupOldOrders is called
TriggerManualCleanup ==
    /\ Built
    /\ sched.manualCleanup = "idle"
    /\ sched.weekly = "idle"
    /\ PassStarted
    /\ BeginRet
    /\ sched' = [sched EXCEPT !.manualCleanup = "run"]
    /\ UNCHANGED <<orders, products, nextId, remote, sync, client>>

\* return await cleanupOldOrders(): the caller gets what the pass gave
ManualCleanupResumed ==
    /\ sched.manualCleanup = "run"
    /\ ~InFlight(ret.pc)
    /\ sched' = [sched EXCEPT !.manualCleanup = "idle",
            !.runs = Append(@, [job |-> "manualCleanup"] @@
                Returned(ret, ret.deletedOrders, ret.deletedProducts))]
    /\ UNCHANGED <<orders, products, nextId, remote, sync, ret, obs, env, client>>

----------------------------------------------------------------------------
\* The remote source client: WooCommerceService

\* the methods of WooCommerceService that call the remote
Methods == {"fetchOrders", "fetchOrder", "fetchProducts", "fetchProduct", "testConnection"}

\* what a request can end in: a response with an HTTP status, or no response at all
\* (the connection failed, or the 30 s timeout of the axios client ran out)
Statuses ==
    {200, 201, 202, 204, 400, 401, 403, 404, 405, 408, 409, 410, 422, 429,
     500, 501, 502, 503, 504}
Responses ==
    [kind : {"status"}, status : Statuses]
        \cup [kind : {"network", "timeout"}, status : {0}]

\* axios resolves a response whose status is 2xx and rejects everything else
Resolves(response) ==
    response.kind = "status" /\ response.status >= 200 /\ response.status < 300

\* the message of the error axios rejects with
AxiosMessage(response) ==
    CASE response.kind = "status"  -> <<"Request failed with status code", response.status>>
      [] response.kind = "timeout" -> <<"timeout of 30000ms exceeded">>
      [] OTHER                     -> <<"Network Error">>

\* the text each method puts before the message of the error it caught
Prefix(method) ==
    CASE method = "fetchOrders"   -> "Failed to fetch orders"
      [] method = "fetchOrder"    -> "Failed to fetch order"
      [] method = "fetchProducts" -> "Failed to fetch products"
      [] OTHER                    -> "Failed to fetch product"

\* what a call gives its caller.  The fetch methods return response.data, or catch
\* the rejection and throw new Error(prefix + message): an object of class Error
\* that keeps neither the status nor the code of the error caught.  testConnection
\* returns response.status === 200, or catches the rejection and returns false.
Surfaced(method, response) ==
    IF method = "testConnection"
    THEN [threw |-> FALSE, name |-> "none", message |-> <<>>,
          value |-> Resolves(response) /\ response.status = 200]
    ELSE IF Resolves(response)
         THEN [threw |-> FALSE, name |-> "none", message |-> <<>>, value |-> TRUE]
         ELSE [threw |-> TRUE, name |-> "Error",
               message |-> <<Prefix(method)>> \o AxiosMessage(response), value |-> FALSE]

\* what process.env can hold for one of the three variables the constructor reads:
\* nothing, the empty string, or a value
Unset == "undefined"
EnvValues == {Unset, "", "value"}
Environments == [WOOCOMMERCE_URL : EnvValues, WOOCOMMERCE_KEY : EnvValues,
                 WOOCOMMERCE_SECRET : EnvValues]

\* process.env.X || ''
OrEmpty(value) == IF value = Unset THEN "" ELSE value

MissingUrlOnly(baseURL, consumerKey, consumerSecret) == baseURL = ""

\* !this.baseURL || !this.consumerKey || !this.consumerSecret
Missing(baseURL, consumerKey, consumerSecret) ==
    baseURL = "" \/ consumerKey = "" \/ consumerSecret = ""

\* new WooCommerceService(), and so new SyncService() and new SyncScheduler(),
\* whose constructors do nothing else: the object, or the error thrown
Constructed(environment) ==
    IF Missing(OrEmpty(environment.WOOCOMMERCE_URL),
               OrEmpty(environment.WOOCOMMERCE_KEY),
               OrEmpty(environment.WOOCOMMERCE_SECRET))
    THEN [state |-> "failed", environment |-> environment, method |-> "none",
          error |-> [name |-> "Error",
                     message |-> "WooCommerce credentials are not properly configured"]]
    ELSE [state |-> "ready", environment |-> environment, method |-> "none"]

\* before the constructor has run
Unbuilt == [state |-> "unbuilt", method |-> "none"]

\* a client constructed from a complete environment, no call made on it yet
NoCall ==
    Constructed([WOOCOMMERCE_URL |-> "value", WOOCOMMERCE_KEY |-> "value",
                 WOOCOMMERCE_SECRET |-> "value"])

\* new SyncScheduler() runs, under some environment
Construct ==
    /\ client = Unbuilt
    /\ \E environment \in Environments : client' = Constructed(environment)
    /\ UNCHANGED <<orders, products, nextId, remote, sync, ret, obs, env, sched>>

\* a method of the client is called and its request ends
ClientCall ==
    /\ Built
    /\ \E method \in Methods, response \in Responses :
        client' = [state |-> "ready", environment |-> client.environment,
                   method |-> method, response |-> response,
                   surfaced |-> Surfaced(method, response)]
    /\ UNCHANGED <<orders, products, nextId, remote, sync, ret, obs, env, sched>>

----------------------------------------------------------------------------
\* The shop

\* an order of the remote's list is modified in the shop
RemoteTouch ==
    /\ \E k \in DOMAIN remote :
        /\ remote[k] # Touched(remote[k])
        /\ remote' = [j \in DOMAIN remote |->
                        IF remote[j].id = remote[k].id THEN Touched(remote[j])
                        ELSE remote[j]]
    /\ UNCHANGED <<orders, products, nextId, sync, ret, obs, env, sched, client>>

----------------------------------------------------------------------------
\* Specifications

\* the store is empty, the remote holds one of the given lists, no pass was called
InitPasses(remotes, faults, passes) ==
    /\ orders = {}
    /\ products = {}
    /\ nextId = 1
    /\ remote \in remotes
    /\ sync = [s \in SyncProcs |-> IdleSync]
    /\ ret = IdleRet
    /\ obs = InitObs
    /\ env = [faults |-> faults, passes |-> passes]
    /\ client = NoCall

\* the same, and the scheduler is as constructed
InitFrom(remotes, faults, passes) ==
    /\ InitPasses(remotes, faults, passes)
    /\ sched = IdleSched

\* the store is empty, the remote holds any list of at most n orders
InitWith(n, faults, passes) == InitFrom(SeqsUpTo(WooOrders, n), faults, passes)

InitSync == InitWith(MaxRemote, MaxFaults, MaxPasses)

NextSync ==
    \/ SyncStart(1)
    \/ SyncStep(1)

\* sync passes one after the other, no retention
SpecSync == InitSync /\ [][NextSync]_vars

\* the same, where an awaited call always settles and its continuation runs
FairSpecSync == SpecSync /\ WF_vars(SyncStep(1))

\* the store holds what earlier sync passes left: any of the orders, any of the
\* products (a backfill may have failed, a catalog sync may have added one)
InitRet ==
    /\ \E held \in SUBSET WooOrders :
        orders = UNION {InsertDoc({}, w.id, OrderData(w), w.id) : w \in held}
    /\ \E held \in SUBSET ProductIds :
        products = UNION {InsertDoc({}, p, ProductData(WooProduct(p)),
                                    Cardinality(WooOrders) + p) : p \in held}
    /\ nextId = Cardinality(WooOrders) + Cardinality(ProductIds) + 1
    /\ remote = <<>>
    /\ sync = [s \in SyncProcs |-> IdleSync]
    /\ ret = IdleRet
    /\ obs = InitObs
    /\ env = [faults |-> MaxFaults, passes |-> MaxPasses]
    /\ sched = IdleSched
    /\ client = NoCall

NextRet ==
    \/ RetStart
    \/ RetStep

\* retention passes one after the other, no other writer
SpecRet == InitRet /\ [][NextRet]_vars

Init == InitWith(ConcRemote, ConcFaults, ConcPasses)

Next ==
    \/ SyncStart(1)
    \/ SyncStep(1)
    \/ RetStart
    \/ RetStep

\* sync passes and retention passes, interleaved at every await
Spec == Init /\ [][Next]_vars

\* the remote lists under the scheduler: no order, or one
SchedRemotes == {<<>>} \cup {<<w>> : w \in WooOrders}

InitSched == InitFrom(SchedRemotes, SchedFaults, SchedPasses)

NextSched ==
    \/ Start
    \/ Stop
    \/ DailyFire
    \/ DailyTest
    \/ DailyResumed
    \/ DailyStats
    \/ WeeklyFire
    \/ WeeklyResumed
    \/ SyncStep(DailySlot)
    \/ RetStep

\* the scheduler's lifecycle and its two cron tasks, with the passes they call,
\* interleaved at every await
SpecSched == InitSched /\ [][NextSched]_vars

\* the scheduler after at most n calls of start() and stop(), in any order
RECURSIVE Lifecycles(_)
Lifecycles(n) ==
    IF n = 0 THEN {IdleSched}
    ELSE LET earlier == Lifecycles(n - 1)
         IN  earlier \cup {Started(sc) : sc \in earlier} \cup {Stopped(sc) : sc \in earlier}

InitTrigger ==
    /\ InitPasses(SchedRemotes, SchedFaults, SchedPasses)
    /\ sched \in Lifecycles(MaxCalls)

NextTrigger ==
    \/ TriggerManualSync
    \/ ManualSyncResumed
    \/ TriggerManualCleanup
    \/ ManualCleanupResumed
    \/ SyncStep(ManualSlot)
    \/ RetStep

\* the two manual triggers on a scheduler that was never started, is started or is
\* stopped
SpecTrigger == InitTrigger /\ [][NextTrigger]_vars

InitRestart ==
    /\ InitPasses(SchedRemotes, SchedFaults, SchedPasses)
    /\ sched \in Lifecycles(LeakCalls)

NextRestart ==
    \/ DailyFire
    \/ DailyTest
    \/ DailyResumed
    \/ DailyStats
    \/ WeeklyFire
    \/ WeeklyResumed
    \/ SyncStep(DailySlot)
    \/ RetStep

\* the cron tasks of a scheduler after any calls of start() and stop(), start()
\* more than once included
SpecRestart == InitRestart /\ [][NextRestart]_vars

NextFiring ==
    \/ Start
    \/ DailyFire
    \/ DailyTest
    \/ DailyResumed
    \/ DailyStats
    \/ TriggerManualSync
    \/ ManualSyncResumed
    \/ \E s \in SyncProcs : SyncStep(s)

\* the sync task of a started scheduler and the manual sync trigger
SpecFiring == InitSched /\ [][NextFiring]_vars

\* nothing is constructed yet
InitClient ==
    /\ orders = {}
    /\ products = {}
    /\ nextId = 1
    /\ remote = <<>>
    /\ sync = [s \in SyncProcs |-> IdleSync]
    /\ ret = IdleRet
    /\ obs = InitObs
    /\ env = [faults |-> 0, passes |-> 0]
    /\ sched = IdleSched
    /\ client = Unbuilt

NextClient ==
    \/ Construct
    \/ ClientCall
    \/ Start

\* the construction of the scheduler with its client, then calls on the client,
\* one at a time, and calls of start()
SpecClient == InitClient /\ [][NextClient]_vars

\* the store holds what a clean sync pass over the remote's list left on an
\* earlier day; the shop has modified the products since
InitStored ==
    /\ remote \in SeqsUpTo(WooOrders, ConcRemote)
    /\ orders = UNION {InsertDoc({}, w.id, OrderData(w), w.id) : w \in Range(remote)}
    /\ products = UNION {InsertDoc({}, p, ProductData(EarlierProduct(p)),
                                   Cardinality(WooOrders) + p) :
                         p \in UNION {Range(w.line_items) : w \in Range(remote)}}
    /\ nextId = Cardinality(WooOrders) + Cardinality(ProductIds) + 1
    /\ sync = [s \in SyncProcs |-> IdleSync]
    /\ ret = IdleRet
    /\ obs = InitObs
    /\ env = [faults |-> ConcFaults, passes |-> ConcPasses]
    /\ sched = IdleSched
    /\ client = NoCall

NextSerial ==
    \/ ~InFlight(ret.pc) /\ SyncStart(1)
    \/ SyncStep(1)
    \/ ~InFlight(sync[1].pc) /\ RetStart
    \/ RetStep

\* the two jobs as the schedule runs them: sync passes and retention passes, one
\* after the other, over a store that earlier passes filled
SpecSerial == InitStored /\ [][NextSerial]_vars

NextRefresh ==
    \/ SyncStart(1)
    \/ SyncStep(1)
    \/ RetStart
    \/ RetStep
    \/ RemoteTouch

\* sync passes and retention passes over a filled store, interleaved at every
\* await, while the shop modifies the orders it lists
SpecRefresh == InitStored /\ [][NextRefresh]_vars

\* the store is empty; the remote holds orders of which some were created before
\* the lookback window
InitLookback == InitFrom(SeqsUpTo(WooOrders \cup {OldOrder}, ConcRemote), ConcFaults, ConcPasses)

\* sync passes over a shop with orders older than the lookback window
SpecLookback == InitLookback /\ [][NextSync]_vars

NextTouch ==
    \/ SyncStart(1)
    \/ SyncStep(1)
    \/ RemoteTouch

\* sync passes one after the other, while the shop modifies the orders it lists
SpecTouch == Init /\ [][NextTouch]_vars

\* the two passes are interchangeable: pass 2 is the one that starts second
NextOverlap ==
    \/ SyncStart(1)
    \/ sync[1].pc # "idle" /\ SyncStart(2)
    \/ \E s \in SyncProcs : SyncStep(s)

\* two sync passes in flight at once (a cron firing and a manual trigger, or two
\* firings of the every-minute cron expression), interleaved at every await
SpecOverlap == Init /\ [][NextOverlap]_vars

----------------------------------------------------------------------------
\* Properties

Finished(pc) == pc \in {"idle", "done", "faulted"}

\* the product ids the line items of a document reference
ItemIds(doc) == Range(doc.line_items)

Last(seq) == seq[Len(seq)]

\* the number of records in the pages a pass was answered with
RECURSIVE Fetched(_)
Fetched(log) ==
    IF log = <<>> THEN 0
    ELSE Fetched(SubSeq(log, 1, Len(log) - 1))
         + (IF Last(log).len > 0 THEN Last(log).len ELSE 0)

\* C1: in every state reached by sync passes and retention passes, interleaved in
\* any way, the Order collection holds at most one document per remote order id.
OneOrderPerId ==
    \A d \in orders : \A e \in orders : d.wooCommerceId = e.wooCommerceId => d = e

\* C1's case: a pass that upserted the same remote id twice left one document, and a
\* retention pass has run on the store in between or alongside
OrderUpsertedTwice ==
    /\ obs.pass[1].nOk = 2
    /\ Cardinality(obs.pass[1].upserted) = 1
    /\ Cardinality(orders) = 1
    /\ ret.pc = "done"

\* C2: in every state reached by overlapping sync passes the Product collection
\* holds at most one document per remote product id.
OneProductPerId ==
    \A d \in products : \A e \in products : d.wooCommerceId = e.wooCommerceId => d = e

\* C2's case: two passes each found the same product missing and each upserted it
SameProductBackfilledTwice ==
    /\ obs.pass[1].nBackfilled = 1
    /\ obs.pass[2].nBackfilled = 1
    /\ Cardinality(products) = 1

\* C3: with no other writer, a product document that a retention step removes is
\* referenced by no order document of the store at that moment.
RetentionSafety ==
    [][\A d \in products \ products' : ~Referenced(orders, d.wooCommerceId)]_vars

\* C3's case: the pass removed a product while an order it had selected and failed
\* to delete, and an order it never selected, both remain
RemovedBesideSurvivors ==
    /\ ret.pc = "done"
    /\ obs.ret.removedProducts # {}
    /\ \E d \in orders : d.last_modified < ThreeMonthsAgo
    /\ \E d \in orders : d.last_modified >= ThreeMonthsAgo

\* C4: no interleaving of a sync pass and a retention pass ends with an order in the
\* store that references a product which is gone although the presence check that
\* followed the order's upsert had found it.
NoLostReference ==
    (Finished(sync[1].pc) /\ Finished(ret.pc)) =>
        \A c \in obs.checked :
            (\E d \in Matching(orders, c[1]) : c[2] \in ItemIds(d))
                => Matching(products, c[2]) # {}

\* C5: when a sync pass has returned, every product id referenced by an order the
\* pass upserted has a product document, unless its backfill failed in that pass.
ReferentialCompleteness ==
    sync[1].pc = "done" =>
        \A o \in obs.pass[1].upserted : \A d \in Matching(orders, o) :
            \A p \in ItemIds(d) :
                Matching(products, p) # {} \/ p \in obs.pass[1].failedBackfill

\* C5's case: a returned pass that backfilled one product and failed on another
BackfilledAndFailed ==
    /\ sync[1].pc = "done"
    /\ obs.pass[1].nBackfilled >= 1
    /\ obs.pass[1].failedBackfill # {}
    /\ \E d \in orders : Cardinality(ItemIds(d)) = 2

\* C6: the errors count a sync pass returns is at least the number of backfills
\* that failed in it.
BackfillFailuresCounted ==
    sync[1].pc = "done" => sync[1].errors >= obs.pass[1].nBackfillFail

\* C7: when a sync pass has returned, every fetched record was upserted or failed,
\* synced is the number of upserts that succeeded, errors the number that failed,
\* and the orders upserted are in the store.
PerRecordIsolation ==
    sync[1].pc = "done" =>
        /\ obs.pass[1].nOk + obs.pass[1].nFail = Fetched(obs.pass[1].fetchLog)
        /\ sync[1].synced = obs.pass[1].nOk
        /\ sync[1].errors = obs.pass[1].nFail
        /\ \A o \in obs.pass[1].upserted : Matching(orders, o) # {}

\* C7's case: a pass over three records of which one failed
TwoSyncedOneFailed ==
    /\ sync[1].pc = "done"
    /\ Fetched(obs.pass[1].fetchLog) = 3
    /\ sync[1].synced = 2
    /\ sync[1].errors = 1

\* C8: a sync pass that has started reaches its end, and once a page request was
\* answered with a short or empty page or was rejected, the pass requests no page.
Termination ==
    /\ (sync[1].pc = "fetch") ~> (sync[1].pc \in {"done", "faulted"})
    /\ [][(obs.pass[1].fetchLog # <<>> /\ Last(obs.pass[1].fetchLog).len < PerPage)
            => obs.pass[1].fetchLog' \in {obs.pass[1].fetchLog, <<>>}]_vars

\* C8's case: a pass that ended on the empty page after a full one
EndedOnEmptyPage ==
    /\ sync[1].pc = "done"
    /\ Len(obs.pass[1].fetchLog) = 2
    /\ obs.pass[1].fetchLog[1].len = PerPage
    /\ obs.pass[1].fetchLog[2].len = 0

\* C9: the k-th page request of a pass asks for page k, and every request but the
\* last was answered with a full page.
PagesInOrder ==
    \A k \in 1..Len(obs.pass[1].fetchLog) :
        /\ obs.pass[1].fetchLog[k].page = k
        /\ k < Len(obs.pass[1].fetchLog) => obs.pass[1].fetchLog[k].len = PerPage

\* C9's case: the request for page 2 was rejected and the pass ended there
SecondPageRejected ==
    /\ sync[1].pc = "faulted"
    /\ Len(obs.pass[1].fetchLog) = 2
    /\ obs.pass[1].fetchLog[2].len = -1

\* C10: a pass without a failure over a remote list of N orders makes
\* N \div PerPage + 1 page requests and returns synced = N, errors = 0.
FetchCount ==
    (/\ sync[1].pc = "done"
     /\ obs.pass[1].nFail = 0
     /\ obs.pass[1].nBackfillFail = 0) =>
        /\ Len(obs.pass[1].fetchLog) = (Len(remote) \div PerPage) + 1
        /\ sync[1].synced = Len(remote)
        /\ sync[1].errors = 0

\* C10's case: a full page and a short page (150 orders in pages of 100, scaled)
FullThenShortPage ==
    /\ sync[1].pc = "done"
    /\ Len(remote) = PerPage + 1
    /\ Len(obs.pass[1].fetchLog) = 2
    /\ sync[1].synced = PerPage + 1
    /\ sync[1].errors = 0

\* C11: a sync pass that returns without a failure, after a pass that returned
\* without a failure on the same remote list, leaves the Order and the Product
\* collection as that pass left them and returns the same synced count, errors 0.
Idempotency ==
    (/\ sync[1].pc = "done"
     /\ obs.prev[1].clean
     /\ obs.pass[1].nFail = 0
     /\ obs.pass[1].nBackfillFail = 0) =>
        /\ orders = obs.prev[1].orders
        /\ products = obs.prev[1].products
        /\ sync[1].synced = obs.prev[1].synced
        /\ sync[1].errors = 0

\* C11's case: the second of two passes without a failure over three distinct orders
SecondPassSameStore ==
    /\ sync[1].pc = "done"
    /\ obs.prev[1].clean
    /\ obs.pass[1].nFail = 0
    /\ obs.pass[1].nBackfillFail = 0
    /\ Cardinality(orders) = 3
    /\ Cardinality(products) = 2
    /\ sync[1].synced = 3

\* C12: a rejected page request ends the pass at once with a fault: the step leaves
\* both collections as they are, and as long as the pass stays faulted it requests
\* no page and writes nothing.
PageFaultStops ==
    /\ []((obs.pass[1].fetchLog # <<>> /\ Last(obs.pass[1].fetchLog).len = -1)
            => sync[1].pc = "faulted")
    /\ [][(sync[1].pc = "fetch" /\ sync[1].pc' = "faulted")
            => (orders' = orders /\ products' = products)]_vars
    /\ [][sync[1].pc = "faulted"
            => /\ orders' = orders
               /\ products' = products
               /\ obs.pass[1].fetchLog' \in {obs.pass[1].fetchLog, <<>>}]_vars

\* C12's case: page 2 was rejected after the two orders of page 1 were written
FaultAfterWrites ==
    /\ sync[1].pc = "faulted"
    /\ Len(obs.pass[1].fetchLog) = 2
    /\ obs.pass[1].nOk = 2
    /\ Cardinality(orders) = 2
    /\ products # {}

\* C13: a sync pass is faulted only by a rejected page request: it becomes faulted
\* from the page request only, and whatever failed in the upserts and the backfills,
\* a pass that is not waiting for a page does not become faulted.
OnlyPageFaultRaises ==
    /\ [](sync[1].pc = "faulted"
            => (obs.pass[1].fetchLog # <<>> /\ Last(obs.pass[1].fetchLog).len = -1))
    /\ [][(sync[1].pc # "faulted" /\ sync[1].pc' = "faulted") => sync[1].pc = "fetch"]_vars

\* C13's case: a pass that returned after an order upsert and a backfill failed
ReturnedDespiteFailures ==
    /\ sync[1].pc = "done"
    /\ obs.pass[1].nFail = 1
    /\ obs.pass[1].nBackfillFail = 1
    /\ sync[1].synced >= 1

\* C14: when the connection test of a firing of the sync task fails, the step that
\* ends the test starts no pass, leaves the store, the tasks and the environment's
\* passes as they are, and ends the run as skipped.
SkippedWhenDisconnected ==
    [][(sched.daily = "test" /\ sched.daily' # "test" /\ env.faults' < env.faults)
        => /\ sync' = sync
           /\ orders' = orders
           /\ products' = products
           /\ sched.daily' = "idle"
           /\ sched.syncJob' = sched.syncJob
           /\ sched.cleanupJob' = sched.cleanupJob
           /\ sched.orphans' = sched.orphans
           /\ sched.runs' = Append(sched.runs,
                [job |-> "sync", outcome |-> "skipped", result |-> <<>>])]_vars

\* C14's case: a firing was skipped after an earlier firing had filled the store
SkippedAfterCompleted ==
    /\ Len(sched.runs) = 2
    /\ sched.runs[1].outcome = "completed"
    /\ sched.runs[2].outcome = "skipped"
    /\ orders # {}
    /\ sync[DailySlot].pc = "done"

\* C15: a manual trigger starts its pass in the step of the call, with no awaited
\* check before it and whatever the tasks are, and when the pass has ended the
\* caller gets the pass's counts, or the rejection of a pass that faulted.
ManualTriggersDirect ==
    /\ [][(sched.manualSync = "idle" /\ sched.manualSync' = "run")
            => (sync[ManualSlot].pc' = "fetch" /\ env.faults' = env.faults
                /\ sched.daily' = sched.daily)]_vars
    /\ [][(sched.manualCleanup = "idle" /\ sched.manualCleanup' = "run")
            => (ret.pc' = "find" /\ env.faults' = env.faults)]_vars
    /\ [][(sched.manualSync = "run" /\ sched.manualSync' = "idle")
            => Last(sched.runs') =
                IF sync[ManualSlot].pc = "done"
                THEN [job |-> "manualSync", outcome |-> "resolved",
                      result |-> <<obs.pass[ManualSlot].nOk, obs.pass[ManualSlot].nFail>>]
                ELSE [job |-> "manualSync", outcome |-> "rejected", result |-> <<>>]]_vars
    /\ [][(sched.manualCleanup = "run" /\ sched.manualCleanup' = "idle")
            => Last(sched.runs') =
                IF ret.pc = "done"
                THEN [job |-> "manualCleanup", outcome |-> "resolved",
                      result |-> <<ret.deletedOrders, ret.deletedProducts>>]
                ELSE [job |-> "manualCleanup", outcome |-> "rejected", result |-> <<>>]]_vars
    /\ []((sched.manualSync = "idle" /\ env.passes > 0) => ENABLED TriggerManualSync)
    /\ []((sched.manualCleanup = "idle" /\ sched.weekly = "idle" /\ env.passes > 0)
            => ENABLED TriggerManualCleanup)

\* C15's case: a manual sync and a manual cleanup on a scheduler that was started and
\* stopped: the sync resolved with one order synced, the cleanup with it deleted
ManualRunsOnStopped ==
    /\ sched.syncJob = "stopped"
    /\ sched.cleanupJob = "stopped"
    /\ Len(sched.runs) = 2
    /\ sched.runs[1] = [job |-> "manualSync", outcome |-> "resolved", result |-> <<1, 0>>]
    /\ sched.runs[2].job = "manualCleanup"
    /\ sched.runs[2].outcome = "resolved"
    /\ sched.runs[2].result[1] = 1

\* C16: while the tasks of the one start() are stopped no run of a task begins, and
\* a stop() call changes neither the position of a run in flight nor the store: the
\* next step of a pass in flight is enabled while the tasks are stopped.
StopOnlyPreventsFirings ==
    /\ [][(sched.syncJob = "stopped" /\ sched.cleanupJob = "stopped" /\ sched.orphans = 0)
            => /\ ~(sched.daily = "idle" /\ sched.daily' # "idle")
               /\ ~(sched.weekly = "idle" /\ sched.weekly' # "idle")]_vars
    /\ [][(Len(sched.calls') > Len(sched.calls) /\ Last(sched.calls').op = "stop")
            => /\ sync' = sync
               /\ ret' = ret
               /\ sched.daily' = sched.daily
               /\ sched.weekly' = sched.weekly
               /\ orders' = orders
               /\ products' = products]_vars
    /\ []((sched.syncJob = "stopped" /\ InFlight(sync[DailySlot].pc))
            => ENABLED SyncStep(DailySlot))
    /\ []((sched.cleanupJob = "stopped" /\ InFlight(ret.pc)) => ENABLED RetStep)

\* C16's case: stop() was called while the one sync run was waiting for its
\* connection test; the run then made its pass, wrote to the store and completed
RunOutlivedStop ==
    /\ sched.calls # <<>>
    /\ Last(sched.calls).op = "stop"
    /\ Last(sched.calls).daily = "test"
    /\ sched.orphans = 0
    /\ sched.syncJob = "stopped"
    /\ env.passes = SchedPasses - 1
    /\ sched.runs = <<[job |-> "sync", outcome |-> "completed", result |-> <<1, 0>>]>>
    /\ orders # {}
    /\ products # {}

\* C17: a stop() call on a scheduler that start() was never called on leaves both
\* task fields unset and the rest of the state as it is, and after every start()
\* call both tasks are scheduled.
StopBeforeStart ==
    /\ [][(/\ \A k \in 1..Len(sched.calls) : sched.calls[k].op = "stop"
           /\ Len(sched.calls') > Len(sched.calls)
           /\ Last(sched.calls').op = "stop")
            => /\ sched.syncJob' = "none"
               /\ sched.cleanupJob' = "none"
               /\ sched.orphans' = 0
               /\ UNCHANGED <<orders, products, sync, ret, env>>]_vars
    /\ []((sched.calls # <<>> /\ Last(sched.calls).op = "start")
            => (sched.syncJob = "scheduled" /\ sched.cleanupJob = "scheduled"))

\* C17's case: stop() first, then start(), and a run of the sync task has begun
StartedAfterEarlyStop ==
    /\ Len(sched.calls) = 2
    /\ sched.calls[1].op = "stop"
    /\ sched.calls[2].op = "start"
    /\ sched.syncJob = "scheduled"
    /\ sched.cleanupJob = "scheduled"
    /\ sched.daily = "sync"

\* C18: a run of a task that ends in a fault (the pass faulted, the statistics
\* query or the selection query of the retention pass was rejected) ends inside the
\* callback: the step leaves both tasks as they are and the run's position idle.
FaultsStayInside ==
    [][(Len(sched.runs') > Len(sched.runs) /\ Last(sched.runs').outcome = "failed")
        => /\ sched.syncJob' = sched.syncJob
           /\ sched.cleanupJob' = sched.cleanupJob
           /\ sched.orphans' = sched.orphans
           /\ (Last(sched.runs').job = "sync" => sched.daily' = "idle")
           /\ (Last(sched.runs').job = "cleanup" => sched.weekly' = "idle")]_vars

\* C18's case: after a run that ended in a fault, the next firing of the sync task
\* ran its pass and completed
CompletedAfterFault ==
    /\ Len(sched.runs) = 2
    /\ sched.runs[1].outcome = "failed"
    /\ sched.runs[2] = [job |-> "sync", outcome |-> "completed", result |-> <<1, 0>>]
    /\ sched.syncJob = "scheduled"
    /\ sched.cleanupJob = "scheduled"

\* C19: at no time are two sync passes in flight.
OneSyncPassAtATime ==
    ~(InFlight(sync[DailySlot].pc) /\ InFlight(sync[ManualSlot].pc))

\* the error kind the remote source client is specified to fail with
ErrorKind(response) ==
    CASE response.kind \in {"network", "timeout"} -> "RemoteUnavailable"
      [] response.kind = "status" /\ response.status < 500 -> "RemoteRejected"
      [] OTHER -> "RemoteServerFault"

\* C20: a call of the client whose request was not answered with a 2xx status
\* throws an error whose kind is RemoteUnavailable, RemoteRejected or
\* RemoteServerFault, according to what the request ended in.
FailuresHaveKinds ==
    (client.method # "none" /\ ~Resolves(client.response)) =>
        /\ client.surfaced.threw
        /\ client.surfaced.name = ErrorKind(client.response)

\* the three variables of the environment all hold a non-empty value
Complete(environment) ==
    \A name \in DOMAIN environment : environment[name] \notin {Unset, ""}

\* C21: the construction of the scheduler (of its reconciler, of their client)
\* succeeds exactly when the URL, the key and the secret are all set and
\* non-empty; otherwise it throws the configuration error, and then no task is
\* ever registered and no call is ever made on the client
ConstructionChecksCredentials ==
    client.state # "unbuilt" =>
        /\ client.state = "ready" <=> Complete(client.environment)
        /\ client.state = "failed" =>
            /\ client.error.name = "Error"
            /\ client.error.message =
                   "WooCommerce credentials are not properly configured"
            /\ client.method = "none"
            /\ sched = IdleSched

\* the construction failed where only the secret is the empty string
EmptySecretRejected ==
    /\ client.state = "failed"
    /\ client.environment = [WOOCOMMERCE_URL |-> "value", WOOCOMMERCE_KEY |-> "value",
                             WOOCOMMERCE_SECRET |-> ""]

\* C22: every step that writes a Transaction Record is the upsert of a payload by
\* a sync pass, and the record it leaves carries that payload's remote
\* modification time as its last-modified value, never the time of the write; so
\* a record always holds the modification time of the payload upserted last
LastModifiedIsRemote ==
    [][\A d \in orders' \ orders :
        \E s \in SyncProcs :
            /\ sync[s].pc = "upsert"
            /\ LET wooOrder == sync[s].orders[sync[s].i]
               IN  /\ d.wooCommerceId = wooOrder.id
                   /\ d.last_modified = wooOrder.date_modified
                   /\ d.last_modified # Now]_vars

\* a record stored by a clean pass was refreshed by the next pass, after the shop
\* modified the order: it holds the new modification time
RefreshedAfterTouch ==
    /\ obs.prev[1].clean
    /\ \E d \in orders, e \in obs.prev[1].orders :
        /\ d._id = e._id
        /\ e.last_modified = ThreeMonthsAgo
        /\ d.last_modified = Now - 1

\* C23: a backfill step that fails leaves the catalog store as it was, and a pass
\* that finds a referenced product missing goes on to fetch it from the remote,
\* whatever earlier passes saw fail
FailedBackfillLeavesCatalog ==
    [][/\ obs.pass[1].nBackfillFail' > obs.pass[1].nBackfillFail => products' = products
       /\ ( /\ sync[1].pc = "findProduct"
            /\ Matching(products, Head(sync[1].productIds)) = {}
            /\ env' = env
            /\ sync' # sync )
          => /\ sync'[1].pc = "fetchProduct"
             /\ sync'[1].productIds = sync[1].productIds]_vars

\* a pass is fetching a product whose backfill failed in the pass before it
RetriedAfterFailedBackfill ==
    /\ sync[1].pc = "fetchProduct"
    /\ Head(sync[1].productIds) \in obs.prev[1].failedBackfill
    /\ products = {}

\* C24: a step of a sync pass leaves every Catalog Record that exists as it is,
\* and a pass that finds a referenced product in the store does not go on to
\* fetch it, even where the remote's record differs from the stored one
ExistingProductUntouched ==
    [][/\ sync' # sync => \A d \in products : d \in products'
       /\ ( /\ sync[1].pc = "findProduct"
            /\ Matching(products, Head(sync[1].productIds)) # {}
            /\ sync' # sync )
          => sync'[1].pc # "fetchProduct"]_vars

\* a pass returned after it found a referenced product in the store whose
\* contents differ from the remote's record, and backfilled nothing
StaleProductKept ==
    /\ sync[1].pc = "done"
    /\ obs.pass[1].nBackfilled = 0
    /\ \E c \in obs.checked : \E d \in Matching(products, c[2]) :
        d.date_modified # WooProduct(c[2]).date_modified

\* phase 1 of the retention pass is over: the loop over the selected orders ended
PhaseOneOver == ret.pc \in {"checkProduct", "deleteProduct", "done"}

\* C25: once phase 1 of a retention pass is over, the stale orders still in the
\* store are exactly those whose deletion was rejected (every other selected order
\* was attempted and removed), and deletedOrders is the number of orders removed
DeletionFailuresIsolated ==
    PhaseOneOver =>
        /\ StaleOrders(orders) = obs.ret.failedOrders
        /\ ret.deletedOrders = Cardinality(obs.ret.removedOrders)

\* a pass returned after a deletion was rejected and a later one removed its order
RemovedAfterFailedDeletion ==
    /\ ret.pc = "done"
    /\ \E f \in obs.ret.failedOrders, d \in obs.ret.removedOrders : f._id < d._id

\* C26: while a retention pass checks or deletes products, and whenever it has
\* removed a product, no selected order is still waiting for its deletion: every
\* stale order left in the store is one whose deletion was attempted and rejected
PhaseTwoAfterPhaseOne ==
    (ret.pc \in {"checkProduct", "deleteProduct"} \/ obs.ret.removedProducts # {}) =>
        /\ ret.ordersToDelete = <<>>
        /\ StaleOrders(orders) \subseteq obs.ret.failedOrders

\* the first existence check of a pass that selected two orders: both are removed
CheckAfterTwoDeletions ==
    /\ ret.pc = "checkProduct"
    /\ Cardinality(obs.ret.removedOrders) = 2
    /\ obs.ret.removedProducts = {}

\* C27: the deletedProducts a retention pass returns is the number of Catalog
\* Records the pass removed from the store
ProductCountIsRemoved ==
    ret.pc = "done" => ret.deletedProducts = Cardinality(obs.ret.removedProducts)

\* C28: every Transaction Record a retention pass removed had, as it was removed,
\* a last-modified value older than the retention threshold
DeletedWereStale ==
    \A d \in obs.ret.removedOrders : d.last_modified < ThreeMonthsAgo

\* C29: a Transaction Record that the latest retention pass removed is not in the
\* store again, the jobs running one after the other and the remote unchanged
NoDeleteRecreateCycle ==
    \A d \in obs.ret.removedOrders : Matching(orders, d.wooCommerceId) = {}

\* C30: a sync pass that returned without a failure has upserted every order of
\* the remote whose modification time is at or after the lookback boundary, and
\* every page request of the pass carried the boundary computed at its start
ModifiedInWindowSynced ==
    (sync[1].pc = "done" /\ obs.pass[1].nFail = 0) =>
        /\ \A k \in DOMAIN remote :
            remote[k].date_modified >= sync[1].afterDate =>
                Matching(orders, remote[k].id) # {}
        /\ \A k \in DOMAIN obs.pass[1].fetchLog :
            obs.pass[1].fetchLog[k].after = sync[1].afterDate

\* a pass is backfilling the products of a record
Backfilling(pc) == pc \in {"findProduct", "fetchProduct", "syncProduct"}

\* the order upserts of the current pass that have settled
Settled(s) == obs.pass[s].nOk + obs.pass[s].nFail

\* C31: a sync pass works on one record at a time, in the order of the remote's
\* list: when it requests page N every record of the pages before is settled,
\* when it upserts the i-th record of a page every record before it is settled
\* and no later one is, when it backfills it is for the record settled last; and
\* the step in which an upsert is rejected never leads into a backfill
StrictlySequential ==
    /\ [](LET r == sync[1]
              before == (r.page - 1) * PerPage
          IN  /\ r.pc = "fetch" => Settled(1) = before
              /\ r.pc = "upsert" =>
                    /\ Settled(1) = before + r.i - 1
                    /\ r.orders[r.i] = Published(remote, r.afterDate)[before + r.i]
              /\ Backfilling(r.pc) =>
                    /\ Settled(1) = before + r.i
                    /\ r.orders[r.i].id \in obs.pass[1].upserted)
    /\ [][obs.pass[1].nFail' = obs.pass[1].nFail + 1 => ~Backfilling(sync'[1].pc)]_vars

\* the second page is requested after one record of the first was rejected and
\* the other was upserted and its product backfilled
SecondPageAfterBackfill ==
    /\ sync[1].pc = "fetch"
    /\ sync[1].page = 2
    /\ obs.pass[1].nFail = 1
    /\ obs.pass[1].nOk = PerPage - 1
    /\ obs.pass[1].nBackfilled >= 1

\* the product ids phase 1 of the current retention pass collected: those of the
\* line items of every selected order
Candidates ==
    UNION {Range(d.line_items) : d \in obs.ret.removedOrders \cup obs.ret.failedOrders}

\* C32: a retention pass that has returned made the existence check for every
\* candidate product id, whichever checks and deletions were rejected; it removed
\* no product whose check or deletion was rejected; and a pass ends in a fault
\* only where the selection itself was rejected, before anything was attempted
CandidateFailuresIsolated ==
    /\ ret.pc = "done" =>
        /\ obs.ret.checkedProducts = Candidates
        /\ \A d \in obs.ret.removedProducts :
              d.wooCommerceId \notin obs.ret.failedProducts
    /\ ret.pc = "faulted" => obs.ret = IdleRetObs

\* a pass returned after the call for its first candidate was rejected: the product
\* is still in the store, and the next candidate was checked and removed
RemovedAfterFailedCandidate ==
    /\ ret.pc = "done"
    /\ obs.ret.failedProducts = {2}
    /\ Matching(products, 2) # {}
    /\ \E d \in obs.ret.removedProducts : d.wooCommerceId = 1

\* C33: the step in which start() is called schedules the two tasks and nothing
\* else: no run of either job begins or ends in it, no pass moves, the store and
\* the remote budget are as before; and a run of the sync job begins only in a
\* step in which a scheduled sync task fires
StartOnlyRegisters ==
    [][/\ ( /\ Len(sched'.calls) = Len(sched.calls) + 1
            /\ Last(sched'.calls).op = "start" )
          => /\ sched'.syncJob = "scheduled"
             /\ sched'.cleanupJob = "scheduled"
             /\ sched'.daily = sched.daily
             /\ sched'.weekly = sched.weekly
             /\ sched'.runs = sched.runs
             /\ UNCHANGED <<orders, products, nextId, sync, ret, obs, env>>
       /\ (sched.daily = "idle" /\ sched'.daily # "idle")
          => /\ TimerActive(sched.syncJob, sched.orphans)
             /\ sched'.calls = sched.calls]_vars

\* start() has returned on a shop that lists an order: nothing ran, nothing is stored
StartedNothingRun ==
    /\ sched.calls # <<>>
    /\ Last(sched.calls).op = "start"
    /\ remote # <<>>
    /\ sched.runs = <<>>
    /\ sched.daily = "idle"
    /\ sched.weekly = "idle"
    /\ env.passes = SchedPasses
    /\ orders = {}

\* the run of the sync job is waiting for the remote to answer
BlockedOnRemote ==
    \/ sched.daily = "test"
    \/ sched.daily = "sync" /\ sync[DailySlot].pc \in {"fetch", "fetchProduct"}

\* C34: while the sync run waits for the remote, a scheduled retention task can
\* fire and a retention pass in flight can take its next step; while a retention
\* run is in flight, a scheduled sync task can fire
JobsDoNotBlock ==
    /\ ( /\ BlockedOnRemote
         /\ TimerActive(sched.cleanupJob, sched.orphans)
         /\ sched.weekly = "idle" /\ sched.manualCleanup = "idle"
         /\ env.passes > 0 )
       => ENABLED WeeklyFire
    /\ (BlockedOnRemote /\ InFlight(ret.pc)) => ENABLED RetStep
    /\ (BlockedOnRemote /\ sched.weekly = "run" /\ ~InFlight(ret.pc))
       => ENABLED WeeklyResumed
    /\ ( /\ sched.weekly = "run"
         /\ TimerActive(sched.syncJob, sched.orphans)
         /\ sched.daily = "idle"
         /\ env.passes > 0 )
       => ENABLED DailyFire

\* the sync run still waits for its first page while the retention pass, called
\* by the retention job, has returned
RetentionDoneWhileSyncWaits ==
    /\ sched.daily = "sync"
    /\ sync[DailySlot].pc = "fetch"
    /\ obs.pass[DailySlot].fetchLog = <<>>
    /\ sched.weekly = "run"
    /\ ret.pc = "done"

\* C35: where the last call made on the scheduler is stop(), no cron task fires:
\* no run of the sync job or of the retention job has begun
NoFiringAfterStop ==
    (sched.calls # <<>> /\ Last(sched.calls).op = "stop") =>
        /\ sched.daily = "idle"
        /\ sched.weekly = "idle"
        /\ sched.runs = <<>>
        /\ env.passes = SchedPasses

\* C37: getStatus().isRunning is true exactly where the scheduler was started and
\* not stopped since: where the last call made on it is start()
IsRunningMeansStarted ==
    GetStatus(sched).isRunning <=>
        (sched.calls # <<>> /\ Last(sched.calls).op = "start")

\* C36: a retention pass only removes: no step creates or changes a record; the
\* orders a step removes are stale ones, the products it removes are products of
\* the line items of the orders the pass selected; so every other product and
\* every order that was not selected stay as they are
RetentionOnlyRemovesCandidates ==
    /\ [](\A d \in obs.ret.removedProducts : d.wooCommerceId \in Candidates)
    /\ [][/\ orders' \subseteq orders
           /\ products' \subseteq products
           /\ (orders \ orders') \subseteq StaleOrders(orders)
           /\ \A d \in products \ products' :
                /\ d.wooCommerceId = Head(ret.productIdsToCheck)
                /\ d.wooCommerceId \in Candidates]_vars

\* a pass returned after it removed product 1; product 2, which no order ever
\* referenced, is still in the store
UnreferencedProductKept ==
    /\ ret.pc = "done"
    /\ \E d \in obs.ret.removedProducts : d.wooCommerceId = 1
    /\ Matching(products, 2) # {}
    /\ ~Referenced(orders \cup obs.ret.removedOrders, 2)

\* C38: the product ids a pass still has to handle for the record it is
\* processing are ids of that record's line items, each at most once; a step of
\* the backfill either takes the id at the head one call further (looked up, then
\* fetched, then upserted) or drops it for good and looks up the next one: so each
\* distinct id is looked up once and fetched at most once for the record
EachProductOnce ==
    /\ [](Backfilling(sync[1].pc) =>
            LET ids == sync[1].productIds
            IN  /\ ids # <<>>
                /\ \A j, k \in DOMAIN ids : ids[j] = ids[k] => j = k
                /\ Range(ids) \subseteq Range(sync[1].orders[sync[1].i].line_items))
    /\ [][(Backfilling(sync[1].pc) /\ sync' # sync) =>
            \/ /\ sync'[1].productIds = sync[1].productIds
               /\ <<sync[1].pc, sync'[1].pc>> \in
                      {<<"findProduct", "fetchProduct">>, <<"fetchProduct", "syncProduct">>}
            \/ /\ sync'[1].pc = "findProduct"
               /\ sync'[1].productIds = Tail(sync[1].productIds)
               /\ sync'[1].i = sync[1].i
            \/ ~Backfilling(sync'[1].pc)]_vars

\* a pass over the one order with line items 2, 1, 2 returned: two products were
\* backfilled, none failed
ThreeItemsTwoBackfills ==
    /\ sync[1].pc = "done"
    /\ Len(remote) = 1
    /\ Len(remote[1].line_items) = 3
    /\ obs.pass[1].nOk = 1
    /\ obs.pass[1].nBackfilled = 2
    /\ obs.pass[1].nBackfillFail = 0

====
